---- MODULE Spec2Model ----
(***************************************************************************)
(* protocat: schema-less decoder of Protocol-Buffers wire data             *)
(* (src/src/main.rs).  The parsers are nom combinators over a              *)
(* LocatedSpan<&[u8]>; they are modelled as operators from a span to an    *)
(* IResult.  main and print_message are modelled as a state machine.       *)
(*                                                                         *)
(* A u64/u32 is modelled as the set of the positions of its set bits       *)
(* (bit 0 = least significant), so that shifts drop the bits that leave    *)
(* the 64-bit word exactly as Rust's << on u64 does.                       *)
(***************************************************************************)
EXTENDS Naturals, Sequences, FiniteSets

VARIABLES args, argi, buffer, pc, res, msg, stack, out

vars == <<args, argi, buffer, pc, res, msg, stack, out>>

(***************************************************************************)
(* Bounds of the model.                                                    *)
(***************************************************************************)
\* most fragments concatenated into one generated message
MaxFrags == 2
\* most length-prefixed wrappers put around a generated message
MaxDepth == 2
\* most continuation bytes of a generated varint
MaxGroups == 10

(***************************************************************************)
(* Machine integers.                                                       *)
(***************************************************************************)
\* width of u64 (let mut result = 0u64)
W == 64

RECURSIVE Pow2(_)
Pow2(n) == IF n = 0 THEN 1 ELSE 2 * Pow2(n - 1)

\* the bits of a byte c: u8 (c as u64)
ByteBits(c) == {j \in 0..7 : (c \div Pow2(j)) % 2 = 1}

\* a & m
And(a, m) == a \cap m

\* a | b
Or(a, b) == a \cup b

\* v << k on a u64: the bits shifted past bit 63 are dropped
Shl(v, k) == {j + k : j \in {x \in v : x + k < W}}

\* v >> k
Shr(v, k) == {j - k : j \in {x \in v : x >= k}}

\* the number a small bit set stands for
RECURSIVE ToNat(_)
ToNat(v) ==
    IF v = {} THEN 0
    ELSE LET j == CHOOSE x \in v : \A y \in v : y <= x
         IN Pow2(j) + ToNat(v \ {j})

\* count as usize compared with the bytes available (count > n)
Exceeds(v, n) == (\E j \in v : j >= 30) \/ ToNat(v) > n

(***************************************************************************)
(* Spans and parse results.                                                *)
(***************************************************************************)
\* Span::new(&buffer): a LocatedSpan starts at offset 0
SpanNew(b) == [off |-> 0, frag |-> b]

NoSpan == [off |-> 0, frag |-> <<>>]

\* no parse has been made yet
NoRes == [t |-> "None"]

\* i.slice(n..): the rest of the span after its first n bytes
Slice(i, n) == [off |-> i.off + n, frag |-> SubSeq(i.frag, n + 1, Len(i.frag))]

\* the first n bytes of the span (InputTake::take_split's prefix)
Prefix(i, n) == [off |-> i.off, frag |-> SubSeq(i.frag, 1, n)]

Ok(i, o) == [t |-> "Ok", i |-> i, o |-> o]

\* Err(nom::Err::Error(E::from_error_kind(i, kind))) / Err(nom::Err::Failure(..)):
\* VerboseError keeps the place of the error and the contexts added on the way up
Err(sev, kind, i) == [t |-> "Err", sev |-> sev, kind |-> kind, off |-> i.off, ctx |-> <<>>]

\* context(name, f): on an error of f, add (input, Context(name))
Context(name, i, r) ==
    IF r.t = "Err"
    THEN [r EXCEPT !.ctx = Append(@, [off |-> i.off, c |-> name])]
    ELSE r

(***************************************************************************)
(* base128_vlq                                                             *)
(***************************************************************************)
\* many_till(verify(le_u8, |c| c & 0x80 != 0), verify(le_u8, |c| c & 0x80 == 0)):
\* at each step the terminator is tried first, then a continuation byte
RECURSIVE ManyTill(_, _)
ManyTill(i, lead) ==
    IF i.frag = <<>>
    THEN [Err("Error", "Eof", i) EXCEPT !.ctx = <<[off |-> i.off, c |-> "ManyTill"]>>]
    ELSE IF And(ByteBits(i.frag[1]), {7}) = {}
         THEN Ok(Slice(i, 1), [lead |-> lead, tail |-> i.frag[1]])
         ELSE ManyTill(Slice(i, 1), Append(lead, i.frag[1]))

\* for b in lead.iter().rev() { result <<= 7; result |= (*b & 0x7f) as u64; }
RECURSIVE FoldLeadForward(_, _)
FoldLeadForward(lead, result) ==
    IF lead = <<>> THEN result
    ELSE FoldLeadForward(Tail(lead),
                         Or(Shl(result, 7), And(ByteBits(Head(lead)), 0..6)))

RECURSIVE FoldLead(_, _)
FoldLead(lead, result) ==
    IF lead = <<>> THEN result
    ELSE FoldLead(SubSeq(lead, 1, Len(lead) - 1),
                  Or(Shl(result, 7), And(ByteBits(lead[Len(lead)]), 0..6)))

\* let mut result = 0u64; result |= (tail & 0x7f) as u64; the loop; Ok((input, result)),
\* given r, the result of many_till (whose error `?` passes on)
VlqResult(r) ==
    IF r.t = "Err" THEN r
    ELSE Ok(r.i, FoldLead(r.o.lead, And(ByteBits(r.o.tail), 0..6)))

\* a decoder with the 10-byte limit of the reference implementations
VlqResultBounded(r) ==
    IF r.t = "Err" THEN r
    ELSE IF Len(r.o.lead) >= 10 THEN Err("Error", "TooLarge", r.i)
    ELSE VlqResult(r)

Base128VlqBounded(input) == VlqResultBounded(ManyTill(input, <<>>))

Base128Vlq(input) == VlqResult(ManyTill(input, <<>>))

(***************************************************************************)
(* Fixed-width integers and length_take                                    *)
(***************************************************************************)
\* the bytes b[1..n] read little-endian: res += (byte as u64) << (8 * index)
RECURSIVE LittleEndian(_, _)
LittleEndian(b, n) ==
    IF n = 0 THEN {}
    ELSE Or(LittleEndian(b, n - 1), Shl(ByteBits(b[n]), 8 * (n - 1)))

\* nom::number::complete::le_u64
LeU64(i) ==
    IF Len(i.frag) < 8 THEN Err("Error", "Eof", i)
    ELSE Ok(Slice(i, 8), LittleEndian(i.frag, 8))

\* nom::number::complete::le_u32
LeU32(i) ==
    IF Len(i.frag) < 4 THEN Err("Error", "Eof", i)
    ELSE Ok(Slice(i, 4), LittleEndian(i.frag, 4))

\* a take that yields whatever is left when fewer than count bytes remain
TakeLenient(count, i) ==
    IF Exceeds(count, Len(i.frag))
    THEN Ok(Slice(i, Len(i.frag)), i)
    ELSE Ok(Slice(i, ToNat(count)), Prefix(i, ToNat(count)))

\* nom::bytes::complete::take(count)
Take(count, i) ==
    IF Exceeds(count, Len(i.frag)) THEN Err("Error", "Eof", i)
    ELSE Ok(Slice(i, ToNat(count)), Prefix(i, ToNat(count)))

\* let (i, count) = f.parse(i)?; take(count)(i), given r, the result of f
TakeCounted(r) == IF r.t = "Err" THEN r ELSE Take(r.o, r.i)

\* length_take(base128_vlq)
LengthTake(i) == TakeCounted(Base128Vlq(i))

(***************************************************************************)
(* ProtoTag::parse and ProtoField::parse                                   *)
(***************************************************************************)
\* match tag & 0x7 { 0 => VarInt, ..., 5 => Int32, _ => Failure }
WireTypeOf(n) ==
    CASE n = 0 -> "VarInt"
      [] n = 1 -> "Int64"
      [] n = 2 -> "LengthPrefixed"
      [] n = 3 -> "StartGroup"
      [] n = 4 -> "EndGroup"
      [] n = 5 -> "Int32"
      [] OTHER -> "Invalid"

\* a tag that takes field_number from tag >> 2
TagOfShift2(r) ==
    IF r.t = "Err" THEN r
    ELSE IF WireTypeOf(ToNat(And(r.o, 0..2))) = "Invalid"
         THEN Err("Failure", "Verify", r.i)
         ELSE Ok(r.i, [wire_type |-> WireTypeOf(ToNat(And(r.o, 0..2))),
                       tag_number |-> Shr(r.o, 2)])

\* let (input, tag) = base128_vlq(input)?; Ok((input, Self{wire_type: match
\* tag & 0x7 {..}, tag_number: tag >> 3})), given r, the result of base128_vlq
TagOf(r) ==
    IF r.t = "Err" THEN r
    ELSE IF WireTypeOf(ToNat(And(r.o, 0..2))) = "Invalid"
         THEN Err("Failure", "Verify", r.i)
         ELSE Ok(r.i, [wire_type |-> WireTypeOf(ToNat(And(r.o, 0..2))),
                       tag_number |-> Shr(r.o, 3)])

\* a tag parser that decodes the tag and leaves the cursor before it
ProtoTagParsePeek(input) ==
    Context("ProtoTag", input,
            IF TagOf(Base128Vlq(input)).t = "Err"
            THEN TagOf(Base128Vlq(input))
            ELSE Ok(input, TagOf(Base128Vlq(input)).o))

ProtoTagParse(input) == Context("ProtoTag", input, TagOf(Base128Vlq(input)))

\* WireValue<I>: the variant, its integer (VarInt, Int64, Int32) and its span
\* (LengthPrefixed)
WireValue(kind, v, d) == [kind |-> kind, v |-> v, d |-> d]

ProtoField(tag_number, value) == [tag_number |-> tag_number, value |-> value]

\* map(p, |value| ProtoField{tag_number, value: WireValue::<kind>(value)}),
\* given r, the result of p
MapField(r, tag_number, kind) ==
    IF r.t = "Err" THEN r
    ELSE Ok(r.i, ProtoField(tag_number,
                            IF kind = "LengthPrefixed"
                            THEN WireValue(kind, {}, r.o)
                            ELSE WireValue(kind, r.o, NoSpan)))

\* let (input, tag) = ProtoTag::parse(input)?; match tag {..}, given t, the
\* result of ProtoTag::parse
FieldOf(t) ==
    IF t.t = "Err" THEN t
    ELSE CASE t.o.wire_type = "VarInt" ->
                MapField(Base128Vlq(t.i), t.o.tag_number, "VarInt")
           [] t.o.wire_type = "Int64" ->
                MapField(LeU64(t.i), t.o.tag_number, "Int64")
           [] t.o.wire_type = "LengthPrefixed" ->
                MapField(LengthTake(t.i), t.o.tag_number, "LengthPrefixed")
           [] t.o.wire_type = "StartGroup" ->
                Ok(t.i, ProtoField(t.o.tag_number, WireValue("StartGroup", {}, NoSpan)))
           [] t.o.wire_type = "EndGroup" ->
                Ok(t.i, ProtoField(t.o.tag_number, WireValue("EndGroup", {}, NoSpan)))
           [] t.o.wire_type = "Int32" ->
                MapField(LeU32(t.i), t.o.tag_number, "Int32")

ProtoFieldParse(input) == Context("ProtoField", input, FieldOf(ProtoTagParse(input)))

(***************************************************************************)
(* protobuf and all_consuming                                              *)
(***************************************************************************)
\* many0(complete(ProtoField::parse)): an Error ends the list, a Failure is
\* passed on, a parser that consumes nothing is an error (ErrorKind::Many0)
RECURSIVE Many0(_, _)
\* one turn of many0's loop, given r, the result of the parser at i
Many0Step(i, acc, r) ==
    IF r.t = "Err"
    THEN IF r.sev = "Error" THEN Ok(i, acc) ELSE r
    ELSE IF Len(r.i.frag) = Len(i.frag)
         THEN Err("Error", "Many0", i)
         ELSE Many0(r.i, Append(acc, r.o))

Many0(i, acc) == Many0Step(i, acc, ProtoFieldParse(i))

Protobuf(input) == Many0(input, <<>>)

\* all_consuming without its check of the rest
AllConsumingUnchecked(r) == r

\* all_consuming(f): f's result, and an error (ErrorKind::Eof) at the rest
\* when the rest is not empty
AllConsuming(r) ==
    IF r.t = "Ok" /\ Len(r.i.frag) # 0 THEN Err("Error", "Eof", r.i) ELSE r

\* the error kinds (section 7 of the specification) in nom's terms
UnexpectedEnd(e) == e.t = "Err" /\ e.sev = "Error" /\ e.kind = "Eof" /\ e.ctx # <<>>

InvalidWireType(e) == e.t = "Err" /\ e.sev = "Failure" /\ e.kind = "Verify"

TrailingBytes(e) == e.t = "Err" /\ e.sev = "Error" /\ e.kind = "Eof" /\ e.ctx = <<>>

(***************************************************************************)
(* main and print_message                                                  *)
(***************************************************************************)
\* String::from_utf8(d.as_bytes().to_vec()).is_ok(): well-formed UTF-8 (no
\* overlong forms, no surrogates, nothing above U+10FFFF)
IsCont(c) == c \in 128..191

RECURSIVE Utf8Valid(_)
Utf8Valid(b) ==
    IF b = <<>> THEN TRUE
    ELSE LET c == b[1]
             n == Len(b)
         IN IF c < 128 THEN Utf8Valid(Tail(b))
            ELSE IF c \in 194..223
                 THEN n >= 2 /\ IsCont(b[2]) /\ Utf8Valid(SubSeq(b, 3, n))
            ELSE IF c \in 224..239
                 THEN /\ n >= 3
                      /\ b[2] \in (IF c = 224 THEN 160..191
                                   ELSE IF c = 237 THEN 128..159 ELSE 128..191)
                      /\ IsCont(b[3])
                      /\ Utf8Valid(SubSeq(b, 4, n))
            ELSE IF c \in 240..244
                 THEN /\ n >= 4
                      /\ b[2] \in (IF c = 240 THEN 144..191
                                   ELSE IF c = 244 THEN 128..143 ELSE 128..191)
                      /\ IsCont(b[3]) /\ IsCont(b[4])
                      /\ Utf8Valid(SubSeq(b, 5, n))
            ELSE FALSE

\* print_indent(indent): the number of spaces written
PrintIndent(indent) == 2 * indent

\* one activation of print_message: its indent, its fields and the index of
\* the field the loop is at
Frame(indent, fields) == [indent |-> indent, fields |-> fields, i |-> 1]

Top == stack[Len(stack)]

Cur == Top.fields[Top.i]

\* a line written to stdout: the file it belongs to, the number of
\* print_message activations below the one that writes it, the spaces written
\* before it, which println! wrote it, and what that println! was given
Line(level, spaces, kind, num, v, s) ==
    [file |-> argi, level |-> level, spaces |-> spaces, kind |-> kind,
     num |-> num, v |-> v, s |-> s]

\* the loop moves on to the next field of the top activation
Advance == [stack EXCEPT ![Len(stack)].i = @ + 1]

\* generated inputs: fragments of a message (fields, truncated fields, bad
\* tags), concatenated, and wrapped as the payload of a length-prefixed field
Atoms ==
    { <<8, 150, 1>>,
      <<9, 1, 2, 3, 4, 5, 6, 7, 8>>,
      <<13, 120, 86, 52, 18>>,
      <<11>>, <<12>>,
      <<18, 3, 97, 98, 99>>,
      <<18, 2, 195, 169>>,
      <<10, 0>>,
      <<26, 1, 255>>,
      <<10, 129, 0, 8>>,
      <<15>>, <<134, 1>>,
      <<128>>, <<8>>, <<10, 5, 1>>, <<13, 1>> }

RECURSIVE Concats(_)
Concats(n) ==
    IF n = 0 THEN {<<>>}
    ELSE LET P == Concats(n - 1) IN P \cup {p \o a : p \in P, a \in Atoms}

Wrap(p) == <<10, Len(p)>> \o p

RECURSIVE Wrapped(_)
Wrapped(k) ==
    IF k = 0 THEN Concats(MaxFrags)
    ELSE LET P == Wrapped(k - 1) IN P \cup {Wrap(p) : p \in P}

Buffers == Wrapped(MaxDepth)

\* command lines: no file, one file, or a file that decodes followed by one
ArgLists == {<<>>} \cup {<<b>> : b \in Buffers} \cup {<<<<8, 150, 1>>, b>> : b \in Buffers}

Init ==
    /\ args \in ArgLists
    /\ argi = 0
    /\ buffer = <<>>
    /\ pc = "loop"
    /\ res = NoRes
    /\ msg = "none"
    /\ stack = <<>>
    /\ out = <<>>

\* for name in env::args().skip(1): File::open, read_to_end
OpenFile ==
    /\ pc = "loop"
    /\ argi < Len(args)
    /\ argi' = argi + 1
    /\ buffer' = args[argi + 1]
    /\ res' = NoRes
    /\ pc' = "parse"
    /\ UNCHANGED <<args, msg, stack, out>>

\* File::open(name).expect(..) / read_to_end(..).expect(..) panics
OpenFails ==
    /\ pc = "loop"
    /\ argi < Len(args)
    /\ argi' = argi + 1
    /\ buffer' = <<>>
    /\ res' = NoRes
    /\ pc' = "panic"
    /\ msg' = "opening file failed"
    /\ UNCHANGED <<args, stack, out>>

\* the loop is over: main returns
Exit ==
    /\ pc = "loop"
    /\ argi = Len(args)
    /\ pc' = "exit"
    /\ UNCHANGED <<args, argi, buffer, res, msg, stack, out>>

\* a main that prints the fields many0 decoded even when bytes are left
ParseLenient ==
    /\ pc = "parse"
    /\ LET p == Protobuf(SpanNew(buffer))
           r == AllConsuming(p)
       IN /\ res' = r
          /\ IF p.t = "Ok"
             THEN /\ pc' = "print"
                  /\ stack' = <<Frame(0, p.o)>>
                  /\ msg' = msg
             ELSE /\ pc' = "panic"
                  /\ msg' = "parse error"
                  /\ stack' = stack
    /\ UNCHANGED <<args, argi, buffer, out>>

\* let (_, fields) = all_consuming(protobuf)(Span::new(&buffer)).expect("parse error");
\* print_message(0, &fields)
Parse ==
    /\ pc = "parse"
    /\ LET r == AllConsuming(Protobuf(SpanNew(buffer)))
       IN /\ res' = r
          /\ IF r.t = "Ok"
             THEN /\ pc' = "print"
                  /\ stack' = <<Frame(0, r.o)>>
                  /\ msg' = msg
             ELSE /\ pc' = "panic"
                  /\ msg' = "parse error"
                  /\ stack' = stack
    /\ UNCHANGED <<args, argi, buffer, out>>

\* WireValue::VarInt(v) | Int64(v) | Int32(v): print_indent(indent); println!("{}: {}", ..)
PrintScalar ==
    /\ pc = "print"
    /\ Top.i <= Len(Top.fields)
    /\ Cur.value.kind \in {"VarInt", "Int64", "Int32"}
    /\ out' = Append(out, Line(Len(stack) - 1, PrintIndent(Top.indent),
                               Cur.value.kind, Cur.tag_number, Cur.value.v, <<>>))
    /\ stack' = Advance
    /\ UNCHANGED <<args, argi, buffer, pc, res, msg>>

\* WireValue::StartGroup => {}  WireValue::EndGroup => {}
SkipGroup ==
    /\ pc = "print"
    /\ Top.i <= Len(Top.fields)
    /\ Cur.value.kind \in {"StartGroup", "EndGroup"}
    /\ stack' = Advance
    /\ UNCHANGED <<args, argi, buffer, pc, res, msg, out>>

\* a resolver that tries the text rule before the sub-message rule
PrintLengthPrefixedTextFirst ==
    /\ pc = "print"
    /\ Top.i <= Len(Top.fields)
    /\ Cur.value.kind = "LengthPrefixed"
    /\ LET d == Cur.value.d
           sub == AllConsuming(Protobuf(d))
       IN IF Utf8Valid(d.frag)
          THEN /\ out' = Append(out, Line(Len(stack) - 1, 0, "Text",
                                          Cur.tag_number, {}, d.frag))
               /\ stack' = Advance
          ELSE IF sub.t = "Ok"
          THEN /\ out' = Append(out, Line(Len(stack) - 1, PrintIndent(Top.indent),
                                          "Open", Cur.tag_number, {}, <<>>))
               /\ stack' = Append(stack, Frame(Top.indent + 1, sub.o))
          ELSE /\ out' = Append(out, Line(Len(stack) - 1, 0, "RawBytes",
                                          Cur.tag_number, {}, d.frag))
               /\ stack' = Advance
    /\ UNCHANGED <<args, argi, buffer, pc, res, msg>>

\* a resolver that passes a Failure of the sub-message decode on
PrintLengthPrefixedPropagating ==
    /\ pc = "print"
    /\ Top.i <= Len(Top.fields)
    /\ Cur.value.kind = "LengthPrefixed"
    /\ LET d == Cur.value.d
           sub == AllConsuming(Protobuf(d))
       IN IF sub.t = "Ok"
          THEN /\ out' = Append(out, Line(Len(stack) - 1, PrintIndent(Top.indent),
                                          "Open", Cur.tag_number, {}, <<>>))
               /\ stack' = Append(stack, Frame(Top.indent + 1, sub.o))
               /\ UNCHANGED <<pc, msg>>
          ELSE IF sub.sev = "Failure"
          THEN /\ pc' = "panic"
               /\ msg' = "parse error"
               /\ UNCHANGED <<out, stack>>
          ELSE IF Utf8Valid(d.frag)
          THEN /\ out' = Append(out, Line(Len(stack) - 1, 0, "Text",
                                          Cur.tag_number, {}, d.frag))
               /\ stack' = Advance
               /\ UNCHANGED <<pc, msg>>
          ELSE /\ out' = Append(out, Line(Len(stack) - 1, 0, "RawBytes",
                                          Cur.tag_number, {}, d.frag))
               /\ stack' = Advance
               /\ UNCHANGED <<pc, msg>>
    /\ UNCHANGED <<args, argi, buffer, res>>

\* WireValue::LengthPrefixed(d): sub-message, else text, else raw data.  Only
\* the sub-message branch calls print_indent.
PrintLengthPrefixed ==
    /\ pc = "print"
    /\ Top.i <= Len(Top.fields)
    /\ Cur.value.kind = "LengthPrefixed"
    /\ LET d == Cur.value.d
           sub == AllConsuming(Protobuf(d))
       IN IF sub.t = "Ok"
          THEN /\ out' = Append(out, Line(Len(stack) - 1, PrintIndent(Top.indent),
                                          "Open", Cur.tag_number, {}, <<>>))
               /\ stack' = Append(stack, Frame(Top.indent + 1, sub.o))
          ELSE IF Utf8Valid(d.frag)
          THEN /\ out' = Append(out, Line(Len(stack) - 1, 0, "Text",
                                          Cur.tag_number, {}, d.frag))
               /\ stack' = Advance
          ELSE /\ out' = Append(out, Line(Len(stack) - 1, 0, "RawBytes",
                                          Cur.tag_number, {}, d.frag))
               /\ stack' = Advance
    /\ UNCHANGED <<args, argi, buffer, pc, res, msg>>

\* the loop of print_message is over: back in the caller, which is main (next
\* file) or the sub-message branch (print_indent(indent); println!("}}"))
Return ==
    /\ pc = "print"
    /\ Top.i > Len(Top.fields)
    /\ IF Len(stack) = 1
       THEN /\ stack' = <<>>
            /\ pc' = "loop"
            /\ out' = out
       ELSE LET caller == stack[Len(stack) - 1]
                rest == SubSeq(stack, 1, Len(stack) - 1)
            IN /\ out' = Append(out, Line(Len(stack) - 2, PrintIndent(caller.indent),
                                          "Close", caller.fields[caller.i].tag_number,
                                          {}, <<>>))
               /\ stack' = [rest EXCEPT ![Len(rest)].i = @ + 1]
               /\ pc' = pc
    /\ UNCHANGED <<args, argi, buffer, res, msg>>

Next ==
    \/ OpenFile
    \/ OpenFails
    \/ Exit
    \/ Parse
    \/ PrintScalar
    \/ SkipGroup
    \/ PrintLengthPrefixed
    \/ Return

Spec == Init /\ [][Next]_vars

(***************************************************************************)
(* Harness of base128_vlq: one call on a generated buffer.                 *)
(***************************************************************************)
RECURSIVE SeqsUpTo(_, _)
SeqsUpTo(S, n) ==
    IF n = 0 THEN {<<>>}
    ELSE LET P == SeqsUpTo(S, n - 1)
         IN P \cup {Append(s, x) : s \in {p \in P : Len(p) = n - 1}, x \in S}

\* continuation bytes: an all-zero group and an all-one group
ContBytes == {128, 255}

\* what follows the continuation bytes: nothing (a truncated varint), or a
\* terminator and possibly more bytes
VlqTails == {<<>>, <<0>>, <<1>>, <<127>>, <<2, 150>>, <<127, 128>>}

\* sample u64 values: every subset of a few bit positions
U64Samples == SUBSET {0, 6, 7, 13, 14, 62, 63}

\* the standard unsigned LEB128 encoding of a u64
RECURSIVE EncodeLEB128(_)
EncodeLEB128(v) ==
    IF \A j \in v : j < 7
    THEN <<ToNat(v)>>
    ELSE <<128 + ToNat(And(v, 0..6))>> \o EncodeLEB128(Shr(v, 7))

Encoded == {[v |-> v, enc |-> EncodeLEB128(v)] : v \in U64Samples}

VlqInputs ==
    {l \o t : l \in SeqsUpTo(ContBytes, MaxGroups), t \in VlqTails}
    \cup {e.enc \o t : e \in Encoded, t \in {<<>>, <<150>>}}

VlqInit ==
    /\ args = <<>> /\ argi = 0
    /\ buffer \in VlqInputs
    /\ pc = "vlq"
    /\ res = NoRes
    /\ msg = "none"
    /\ stack = <<>>
    /\ out = <<>>

DecodeVarint ==
    /\ pc = "vlq"
    /\ res' = Base128Vlq(SpanNew(buffer))
    /\ pc' = "done"
    /\ UNCHANGED <<args, argi, buffer, msg, stack, out>>

VlqNext == DecodeVarint

VlqSpec == VlqInit /\ [][VlqNext]_vars

(***************************************************************************)
(* Harness of ProtoField::parse: one call on a generated buffer.           *)
(***************************************************************************)
\* tags: every wire type code with field numbers 0 and 1 in one byte, and
\* with field number 16 in two bytes
TagBytes == {<<t>> : t \in 0..15} \cup {<<128 + t, 1>> : t \in 0..7}

Bodies ==
    { <<>>, <<0>>, <<150, 1>>, <<128>>, <<255, 255, 1, 7>>,
      <<120, 86, 52>>, <<120, 86, 52, 18>>, <<120, 86, 52, 18, 9>>,
      <<1, 2, 3, 4, 5, 6, 7>>, <<1, 2, 3, 4, 5, 6, 7, 128>>,
      <<1, 2, 3, 4, 5, 6, 7, 128, 9>>,
      <<3, 97, 98>>, <<3, 97, 98, 99>>, <<3, 97, 98, 99, 100>>,
      <<129, 0, 8, 9>>, <<129, 0>>, <<255, 255, 255, 255, 255, 255, 255, 255, 255, 1, 5>> }

FieldInputs == {t \o b : t \in TagBytes, b \in Bodies}

FieldInit ==
    /\ args = <<>> /\ argi = 0
    /\ buffer \in FieldInputs
    /\ pc = "field"
    /\ res = NoRes
    /\ msg = "none"
    /\ stack = <<>>
    /\ out = <<>>

DecodeField ==
    /\ pc = "field"
    /\ res' = ProtoFieldParse(SpanNew(buffer))
    /\ pc' = "done"
    /\ UNCHANGED <<args, argi, buffer, msg, stack, out>>

FieldNext == DecodeField

FieldSpec == FieldInit /\ [][FieldNext]_vars

(***************************************************************************)
(* Properties: base128_vlq (checked under VlqSpec)                         *)
(***************************************************************************)
IsPrefix(p, b) == Len(p) <= Len(b) /\ SubSeq(b, 1, Len(p)) = p

\* the bits of the number the first n bytes of b stand for as an unsigned
\* LEB128 varint of any length: group k (from 0) holds bits 7k .. 7k+6
MathBits(b, n) == {x \in 0..(7 * n - 1) : (x % 7) \in ByteBits(b[(x \div 7) + 1])}

HasTerminator(b) == \E k \in 1..Len(b) : b[k] < 128

\* C5: decoding the LEB128 encoding of a u64 v (whatever follows it) yields v
\* and consumes exactly the encoding; any successful decode stops at the first
\* byte whose high bit is clear, and byte k (from 0) of it supplies bits
\* 7k .. 7k+6 of the result.
C5_VarintRoundTrip ==
    pc = "done" =>
      /\ \A e \in Encoded :
           IsPrefix(e.enc, buffer) =>
             /\ res.t = "Ok"
             /\ res.o = e.v
             /\ res.i.off = Len(e.enc)
             /\ res.i.frag = SubSeq(buffer, Len(e.enc) + 1, Len(buffer))
      /\ res.t = "Ok" =>
           /\ res.i.off \in 1..Len(buffer)
           /\ buffer[res.i.off] < 128
           /\ \A k \in 1..(res.i.off - 1) : buffer[k] >= 128
           /\ \A k \in 0..(res.i.off - 1) : \A j \in 0..6 :
                7 * k + j < W => ((7 * k + j \in res.o) <=> (j \in ByteBits(buffer[k + 1])))

\* a value with bit 63 set, encoded in 10 bytes and followed by another byte,
\* has been decoded
C5_Witness ==
    /\ pc = "done"
    /\ res.t = "Ok"
    /\ \E e \in Encoded : 63 \in e.v /\ buffer = e.enc \o <<150>> /\ res.o = e.v
    /\ res.i.off = 10

\* C9: a varint is accepted whatever the number of its continuation bytes (the
\* only failure is a buffer that ends before a byte with a clear high bit), and
\* the result is the encoded number modulo 2^64: its bits from 64 up are dropped.
C9_VarintWraps ==
    pc = "done" =>
      /\ (res.t = "Ok") <=> HasTerminator(buffer)
      /\ res.t = "Err" => UnexpectedEnd(res)
      /\ res.t = "Ok" => res.o = {x \in MathBits(buffer, res.i.off) : x < W}

\* a varint of more than 10 bytes with set bits beyond bit 63 has been decoded
C9_Witness ==
    /\ pc = "done"
    /\ res.t = "Ok"
    /\ res.i.off > 10
    /\ \E x \in MathBits(buffer, res.i.off) : x >= W

(***************************************************************************)
(* Properties: ProtoField::parse (checked under FieldSpec)                 *)
(***************************************************************************)
\* the declared length is more than n
DeclaredOver(v, n) == (\E j \in v : j > 20) \/ ToNat(v) > n

\* C6: a LengthPrefixed value is the n bytes that follow the length varint n,
\* the cursor is left right after them; with fewer than n bytes left the decode
\* fails with UnexpectedEnd.
C6_LengthPrefixExact ==
    pc = "done" =>
      LET t == ProtoTagParse(SpanNew(buffer))
          l == Base128Vlq(t.i)
          p == l.i.off
      IN (t.t = "Ok" /\ t.o.wire_type = "LengthPrefixed") =>
           /\ l.t = "Err" => UnexpectedEnd(res)
           /\ l.t = "Ok" =>
                IF DeclaredOver(l.o, Len(buffer) - p)
                THEN UnexpectedEnd(res)
                ELSE /\ res.t = "Ok"
                     /\ res.o.value.kind = "LengthPrefixed"
                     /\ res.o.value.d.off = p
                     /\ Len(res.o.value.d.frag) = ToNat(l.o)
                     /\ res.o.value.d.frag = SubSeq(buffer, p + 1, p + ToNat(l.o))
                     /\ res.i.off = p + ToNat(l.o)
                     /\ res.i.frag = SubSeq(buffer, p + ToNat(l.o) + 1, Len(buffer))

\* a payload of 3 bytes has been taken from a buffer that holds more bytes
\* after it
C6_Witness ==
    /\ pc = "done"
    /\ res.t = "Ok"
    /\ res.o.value.kind = "LengthPrefixed"
    /\ Len(res.o.value.d.frag) = 3
    /\ res.i.frag # <<>>

\* the n bytes at the start of span i, read little-endian, are the bits of v
IsLittleEndian(v, i, n) ==
    /\ \A k \in 0..(n - 1) : \A j \in 0..7 :
         (8 * k + j \in v) <=> (j \in ByteBits(i.frag[k + 1]))
    /\ \A x \in v : x < 8 * n

\* C7: a field is one varint t, then a value chosen by t & 7; field_number is
\* t >> 3; codes 6 and 7 fail with InvalidWireType; 08 96 01 is field 1,
\* VarInt, 150.
C7_TagDispatch ==
    pc = "done" =>
      LET t == Base128Vlq(SpanNew(buffer))
          w == ToNat(And(t.o, {0, 1, 2}))
          v == Base128Vlq(t.i)
      IN /\ t.t = "Err" => UnexpectedEnd(res)
         /\ t.t = "Ok" =>
              /\ w \in {6, 7} => InvalidWireType(res)
              /\ w \notin {6, 7} => ~InvalidWireType(res)
              /\ res.t = "Ok" =>
                   \A j \in 0..(W - 1) : (j \in res.o.tag_number) <=> (j + 3 \in t.o)
              /\ w = 0 =>
                   IF v.t = "Ok"
                   THEN /\ res.t = "Ok" /\ res.i = v.i
                        /\ res.o.value.kind = "VarInt" /\ res.o.value.v = v.o
                   ELSE UnexpectedEnd(res)
              /\ w = 1 =>
                   IF Len(t.i.frag) >= 8
                   THEN /\ res.t = "Ok" /\ res.i = Slice(t.i, 8)
                        /\ res.o.value.kind = "Int64"
                        /\ IsLittleEndian(res.o.value.v, t.i, 8)
                   ELSE UnexpectedEnd(res)
              /\ w = 2 =>
                   /\ (res.t = "Ok") <=> (LengthTake(t.i).t = "Ok")
                   /\ res.t = "Ok" => res.o.value.kind = "LengthPrefixed"
                   /\ res.t = "Err" => UnexpectedEnd(res)
              /\ w = 3 =>
                   /\ res.t = "Ok" /\ res.i = t.i
                   /\ res.o.value.kind = "StartGroup"
              /\ w = 4 =>
                   /\ res.t = "Ok" /\ res.i = t.i
                   /\ res.o.value.kind = "EndGroup"
              /\ w = 5 =>
                   IF Len(t.i.frag) >= 4
                   THEN /\ res.t = "Ok" /\ res.i = Slice(t.i, 4)
                        /\ res.o.value.kind = "Int32"
                        /\ IsLittleEndian(res.o.value.v, t.i, 4)
                   ELSE UnexpectedEnd(res)
         /\ buffer = <<8, 150, 1>> =>
              /\ res.t = "Ok"
              /\ res.i.frag = <<>>
              /\ ToNat(res.o.tag_number) = 1
              /\ res.o.value.kind = "VarInt"
              /\ ToNat(res.o.value.v) = 150

\* the bytes 08 96 01 have been decoded
C7_Witness ==
    /\ pc = "done"
    /\ buffer = <<8, 150, 1>>
    /\ res.t = "Ok"

(***************************************************************************)
(* Properties: main and print_message (checked under Spec and FairSpec)    *)
(***************************************************************************)
\* the span of buffer b from offset p on
SpanAt(b, p) == Slice(SpanNew(b), p)

ParseFailed == pc = "panic" /\ msg = "parse error"

\* C1 as claimed: every failure of the top-level decode, that of a buffer whose
\* extra bytes start with a tag of an invalid wire type included, has the kind
\* TrailingBytes.
C1_AlwaysTrailingBytes == ParseFailed => TrailingBytes(res)

\* C1 as amended: the top-level decode yields a Message only when the fields
\* consume the buffer exactly.  When the bytes after the decoded fields are a
\* truncated field it fails with TrailingBytes; when they start with a tag of
\* wire type 6 or 7 it fails with InvalidWireType.  In both cases no Message is
\* kept.
C1_Exactness ==
    (pc = "print" \/ ParseFailed) =>
      /\ res.t \in {"Ok", "Err"}
      /\ res.t = "Ok" => res.i.frag = <<>> /\ res.i.off = Len(buffer)
      /\ res.t = "Err" =>
           /\ ParseFailed
           /\ stack = <<>>
           /\ \/ /\ TrailingBytes(res)
                 /\ res.off < Len(buffer)
                 /\ UnexpectedEnd(ProtoFieldParse(SpanAt(buffer, res.off)))
              \/ /\ InvalidWireType(res)
                 /\ LET t == Base128Vlq(SpanAt(buffer, res.ctx[1].off))
                    IN t.t = "Ok" /\ ToNat(And(t.o, {0, 1, 2})) \in {6, 7}

\* the decode of a buffer made of at least one field and a truncated field has
\* failed
C1_Witness ==
    /\ ParseFailed
    /\ TrailingBytes(res)
    /\ res.off > 0

\* the top activation of print_message is at a LengthPrefixed field
AtLengthPrefixed ==
    /\ pc = "print"
    /\ Top.i <= Len(Top.fields)
    /\ Cur.value.kind = "LengthPrefixed"

\* the top activation of print_message, a nested one, is at its end
AtNestedEnd ==
    /\ pc = "print"
    /\ Len(stack) > 1
    /\ Top.i > Len(Top.fields)

LastLine(o) == o[Len(o)]

\* C2: the rules are tried in the order sub-message, text, raw bytes and the
\* first that applies decides the line; a payload that is a message and valid
\* UTF-8 is opened as "<field_number>: {", its fields are printed one level
\* deeper, and "}" closes it.
C2_HeuristicPriority ==
    [][ /\ AtLengthPrefixed =>
             LET d == Cur.value.d
                 r == Protobuf(d)
                 isMsg == r.t = "Ok" /\ r.i.frag = <<>>
             IN /\ Len(out') = Len(out) + 1
                /\ LastLine(out').num = Cur.tag_number
                /\ isMsg =>
                     /\ LastLine(out').kind = "Open"
                     /\ stack' = Append(stack, Frame(Top.indent + 1, r.o))
                /\ (~isMsg /\ Utf8Valid(d.frag)) =>
                     /\ LastLine(out').kind = "Text"
                     /\ LastLine(out').s = d.frag
                /\ (~isMsg /\ ~Utf8Valid(d.frag)) =>
                     /\ LastLine(out').kind = "RawBytes"
                     /\ LastLine(out').s = d.frag
        /\ AtNestedEnd =>
             /\ Len(out') = Len(out) + 1
             /\ LastLine(out').kind = "Close"
             /\ Len(stack') = Len(stack) - 1
      ]_vars

\* a non-empty payload that is a message and valid UTF-8 has been opened, and
\* inside it an empty payload has been opened
C2_Witness ==
    /\ pc = "print"
    /\ Len(stack) = 3
    /\ stack[1].fields[stack[1].i].value.d.frag # <<>>
    /\ Utf8Valid(stack[1].fields[stack[1].i].value.d.frag)
    /\ stack[2].fields[stack[2].i].value.d.frag = <<>>
    /\ LastLine(out).kind = "Open"

\* C3: resolving a LengthPrefixed payload always writes exactly one line, of a
\* sub-message, of text or of raw bytes, and never fails: a sub-message decode
\* that fails (a Failure for an invalid wire type, or bytes left over) and
\* invalid UTF-8 only lead to the next rule.
C3_FallbackTotal ==
    [][ /\ pc = "print" => pc' # "panic" /\ msg' = msg
        /\ AtLengthPrefixed =>
             LET d == Cur.value.d
                 r == Protobuf(d)
             IN /\ pc' = "print"
                /\ Len(out') = Len(out) + 1
                /\ LastLine(out').kind \in {"Open", "Text", "RawBytes"}
                /\ (r.t = "Err" \/ r.i.frag # <<>>) =>
                     /\ LastLine(out').kind \in {"Text", "RawBytes"}
                     /\ (LastLine(out').kind = "Text") <=> Utf8Valid(d.frag)
      ]_vars

\* a payload whose sub-message decode ends in InvalidWireType and that is not
\* UTF-8 has been written as raw bytes
C3_Witness ==
    /\ pc = "print"
    /\ out # <<>>
    /\ LastLine(out).kind = "RawBytes"
    /\ InvalidWireType(Protobuf(SpanNew(LastLine(out).s)))

\* C4 as claimed: every line is written after 2 * k spaces, k the number of
\* enclosing sub-messages.
C4_Indentation ==
    \A k \in 1..Len(out) : out[k].spaces = 2 * out[k].level

\* C8: a line of the current buffer is written only once its top-level decode
\* has succeeded; after a failed decode the buffer has no line.
C8_NoPartialOutput ==
    \A k \in 1..Len(out) :
      out[k].file = argi => (res.t = "Ok" /\ res.i.frag = <<>> /\ pc # "panic")

\* the second buffer starts with a valid field and its decode has failed; the
\* output holds the line of the first buffer only
C8_Witness ==
    /\ ParseFailed
    /\ argi = 2
    /\ ProtoFieldParse(SpanNew(buffer)).t = "Ok"
    /\ Len(out) = 1
    /\ out[1].file = 1

\* the bytes the fields of activation j of print_message were decoded from
Src(j) == IF j = 1 THEN buffer
          ELSE stack[j - 1].fields[stack[j - 1].i].value.d.frag

Done == pc \in {"exit", "panic"}

\* a bound on the steps print_message takes for one field: a payload of n
\* bytes holds at most n fields
FieldSteps(f) ==
    IF f.value.kind = "LengthPrefixed" THEN 2 + 2 * Len(f.value.d.frag) ELSE 1

\* the same for the fields from index k on, and the return
RECURSIVE FrameSteps(_, _)
FrameSteps(fields, k) ==
    IF k > Len(fields) THEN 1 ELSE FieldSteps(fields[k]) + FrameSteps(fields, k + 1)

\* the activations j .. of print_message: the top one is at field i, each
\* other one waits for the sub-message of its field i
RECURSIVE StackSteps(_)
StackSteps(j) ==
    IF j > Len(stack) THEN 0
    ELSE FrameSteps(stack[j].fields, IF j = Len(stack) THEN stack[j].i ELSE stack[j].i + 1)
         + StackSteps(j + 1)

\* the files from index k on: open, decode, at most 2 * length + 1 steps of
\* print_message, back to the loop
RECURSIVE FilesSteps(_)
FilesSteps(k) ==
    IF k > Len(args) THEN 1 ELSE 2 * Len(args[k]) + 4 + FilesSteps(k + 1)

\* a bound on the steps the run has left
Variant ==
    CASE pc = "loop" -> FilesSteps(argi + 1)
      [] pc = "parse" -> FilesSteps(argi + 1) + 2 * Len(buffer) + 3
      [] pc = "print" -> FilesSteps(argi + 1) + StackSteps(1)
      [] OTHER -> 0

\* a step is possible: the guard of one of the actions holds
CanStep ==
    \/ pc \in {"loop", "parse"}
    \/ /\ pc = "print"
       /\ stack # <<>>
       /\ \/ Top.i > Len(Top.fields)
          \/ Cur.value.kind \in {"VarInt", "Int64", "Int32", "StartGroup",
                                 "EndGroup", "LengthPrefixed"}

\* C10: every step lowers a bound on the steps left and the run can stop only
\* once main has returned or panicked, so the run ends; the field loop never
\* meets a field that consumed nothing (many0's guard never trips, and a buffer
\* yields at most as many fields as it has bytes); a payload that is recursed
\* into is shorter than the bytes it was decoded from; the nesting depth of
\* print_message is at most the length of the buffer.
C10_Termination ==
    /\ [][Variant' < Variant]_vars
    /\ [](/\ Done \/ CanStep
          /\ res.t = "Err" => res.kind # "Many0"
          /\ \A j \in 1..Len(stack) : Len(stack[j].fields) <= Len(Src(j))
          /\ \A j \in 2..Len(stack) : Len(Src(j)) < Len(Src(j - 1))
          /\ pc = "print" => Len(stack) - 1 <= Len(buffer))

\* a run that printed a line inside two nested sub-messages has ended
C10_Witness ==
    /\ pc = "exit"
    /\ \E k \in 1..Len(out) : out[k].level = 2

====
